---- MODULE Spec2Model ----
(***************************************************************************)
(* A model of the Lazor puzzle engine of lazor.py: the padded block        *)
(* lattice built by read_bff_file, the laser simulator                     *)
(* (calculate_laser_path, process_laser_paths), the placement enumerator   *)
(* (all_possible_configs) and the solver loop (solve).                     *)
(*                                                                         *)
(* Coordinates are the source's: grid[y][x] with x and y counted from 0.   *)
(* The lattice is held as a sequence of rows, so the block at (x, y) is    *)
(* g[y + 1][x + 1].                                                        *)
(***************************************************************************)
EXTENDS Integers, Sequences, FiniteSets, TLC

VARIABLES
    grid,                 \* Grid.grid: the working lattice
    initial_grid,         \* Grid.initial_grid: the deep copy taken at construction
    lasers,               \* LazorGame.lasers: the working emitters (mutated by the simulator)
    initial_lasers,       \* LazorGame.initial_lasers
    points,               \* LazorGame.points: the set of targets
    available_blocks,     \* LazorGame.available_blocks: letter -> count
    solution_found,       \* LazorGame.solution_found
    block_configurations, \* solve(): the list the enumerator returned
    ci,                   \* solve(): 1-based cursor of its for loop
    pc,                   \* where solve() is
    laser_queue,          \* process_laser_paths(): the FIFO work queue
    hit_points,           \* process_laser_paths(): the visited set
    recorded,             \* every point appended to a path during the current simulation
    seen,                 \* the (grid, queue) pairs the current simulation has been in
    file_lines,           \* read_bff_file(): the lines of the grid section of the file
    call,                 \* the Grid method called last, its arguments and its result
    cur_laser,            \* process_laser_paths(): the queue entry popped last
    steps,                \* calculate_laser_path(): passes made through the while loop
    current_positions,    \* calculate_laser_path(): the path of the laser being traced
    cur_new_lasers        \* calculate_laser_path(): the lasers spawned on that path

\* the locals of the simulator while one laser is traced
sim_locals == <<cur_laser, steps, current_positions, cur_new_lasers>>

vars == <<grid, initial_grid, lasers, initial_lasers, points, available_blocks,
          solution_found, block_configurations, ci, pc, laser_queue,
          hit_points, recorded, seen, file_lines, call, sim_locals>>

----------------------------------------------------------------------------
(* Bounds of the model *)

\* most blocks a budget holds in total (A + B + C)
MaxBlocks == 2

\* longest laser queue the model follows; a simulation whose queue would grow
\* past it is not followed further
MaxQueue == 4

\* most queue iterations the functional form of process_laser_paths unrolls
MaxLasers == 8

----------------------------------------------------------------------------
(* Block, Laser *)

Block(block_type, fixed) == [block_type |-> block_type, fixed |-> fixed]

is_empty(b) == b.block_type = "empty" /\ ~b.fixed

Laser(x, y, vx, vy) == [x |-> x, y |-> y, vx |-> vx, vy |-> vy]

current_position(l) == <<l.x, l.y>>

\* a faulty step: only the x coordinate advances
move_along_x(l) == [l EXCEPT !.x = l.x + l.vx]

move(l) == [l EXCEPT !.x = l.x + l.vx, !.y = l.y + l.vy]

\* a faulty reflection: both components are negated
reflect_x_negates_both(l) == [l EXCEPT !.vx = -l.vx, !.vy = -l.vy]

reflect_x(l) == [l EXCEPT !.vx = -l.vx]

\* a faulty reflection: the wrong component is negated
reflect_y_negates_vx(l) == [l EXCEPT !.vx = -l.vx]

reflect_y(l) == [l EXCEPT !.vy = -l.vy]

\* a faulty refraction: the new laser starts on the X-neighbour
refract_x_on_neighbour(l) == Laser(l.x + l.vx, l.y, -l.vx, l.vy)

refract_x(l) == Laser(l.x, l.y, -l.vx, l.vy)

\* a faulty refraction: the new laser starts one step ahead
refract_y_after_move(l) == Laser(l.x + l.vx, l.y + l.vy, l.vx, -l.vy)

refract_y(l) == Laser(l.x, l.y, l.vx, -l.vy)

absorb(l) == [l EXCEPT !.vx = 0, !.vy = 0]

----------------------------------------------------------------------------
(* Grid *)

Width(g) == Len(g[1])

Height(g) == Len(g)

get_block(g, x, y) == g[y + 1][x + 1]

set_block(g, x, y, b) == [g EXCEPT ![y + 1][x + 1] = b]

is_within_bounds(g, x, y) == 0 <= x /\ x < Width(g) /\ 0 <= y /\ y < Height(g)

RECURSIVE ScanRow(_, _, _)
\* the inner loop of find_empty_positions: row y from column x on
ScanRow(g, x, y) ==
    IF x >= Width(g) THEN <<>>
    ELSE (IF is_empty(get_block(g, x, y)) THEN << <<x, y>> >> ELSE <<>>)
         \o ScanRow(g, x + 1, y)

RECURSIVE ScanRowsUpwards(_, _)
\* a faulty scan: the rows are taken from the last to the first
ScanRowsUpwards(g, y) ==
    IF y >= Height(g) THEN <<>> ELSE ScanRowsUpwards(g, y + 1) \o ScanRow(g, 0, y)

RECURSIVE ScanRows(_, _)
ScanRows(g, y) ==
    IF y >= Height(g) THEN <<>> ELSE ScanRow(g, 0, y) \o ScanRows(g, y + 1)

find_empty_positions(g) == ScanRows(g, 0)

\* a faulty test: the type of the block in the cell is not looked at
place_block_if_movable(g, x, y, block_type) ==
    IF is_within_bounds(g, x, y) /\ ~get_block(g, x, y).fixed
    THEN [grid |-> set_block(g, x, y, Block(block_type, FALSE)), ret |-> TRUE]
    ELSE [grid |-> g, ret |-> FALSE]

\* grid: the lattice after the call; ret: the value returned
place_block(g, x, y, block_type) ==
    IF is_within_bounds(g, x, y) /\ is_empty(get_block(g, x, y))
    THEN [grid |-> set_block(g, x, y, Block(block_type, FALSE)), ret |-> TRUE]
    ELSE [grid |-> g, ret |-> FALSE]

----------------------------------------------------------------------------
(* read_bff_file: the lattice of a character grid *)

NoneBlock == Block("none", TRUE)

CharBlocks(char) ==
    CASE char = "x" -> <<Block("none", TRUE), NoneBlock>>
      [] char = "o" -> <<Block("empty", FALSE), NoneBlock>>
      [] char = "A" -> <<Block("reflect", TRUE), NoneBlock>>
      [] char = "B" -> <<Block("opaque", TRUE), NoneBlock>>
      [] char = "C" -> <<Block("refract", TRUE), NoneBlock>>
      [] OTHER -> <<>>

RECURSIVE RowBlocks(_)
\* the row built for one line of the grid section, after its leading padding
RowBlocks(line) ==
    IF line = <<>> THEN <<>> ELSE CharBlocks(Head(line)) \o RowBlocks(Tail(line))

\* a faulty row: the leading padding block is missing
ParseRowNoLead(line) == RowBlocks(line)

ParseRow(line) == <<NoneBlock>> \o RowBlocks(line)

NoneRow(n) == [i \in 1..n |-> NoneBlock]

RECURSIVE PadRows(_)
PadRows(rows) ==
    IF rows = <<>> THEN <<>>
    ELSE <<Head(rows), NoneRow(Len(Head(rows)))>> \o PadRows(Tail(rows))

read_bff_grid(lines) ==
    LET rows == [i \in 1..Len(lines) |-> ParseRow(lines[i])]
    IN  <<NoneRow(Len(rows[1]))>> \o PadRows(rows)

----------------------------------------------------------------------------
(* calculate_laser_path *)

MAX_STEPS == 500

\* The outcome of one pass through the body of the while loop: the laser
\* afterwards, the point appended to its path (if any), the laser spawned (if
\* any), and whether the loop is left.
\* The pass leaves laser k where it is.
Stay(k, brk) == [laser |-> k, appended |-> <<>>, spawned |-> <<>>, brk |-> brk]

\* The pass moves laser k and records its new position; the loop is left
\* afterwards when the laser has no direction.
Go(k, new) ==
    [laser |-> move(k),
     appended |-> <<current_position(move(k))>>,
     spawned |-> new,
     brk |-> (k.vx = 0 /\ k.vy = 0)]

\* the block rules of the loop body, for a laser whose two neighbours are in
\* bounds
ApplyRules(g, l) ==
    LET x_block == get_block(g, l.x + l.vx, l.y)
        y_block == get_block(g, l.x, l.y + l.vy)
    IN  IF x_block.block_type = "reflect" THEN Go(reflect_x(l), <<>>)
        ELSE IF y_block.block_type = "reflect" THEN Go(reflect_y(l), <<>>)
        ELSE IF x_block.block_type = "opaque" \/ y_block.block_type = "opaque"
            THEN Stay(absorb(l), TRUE)
        ELSE IF x_block.block_type = "refract" THEN Go(l, <<refract_x(l)>>)
        ELSE IF y_block.block_type = "refract" THEN Go(l, <<refract_y(l)>>)
        ELSE IF x_block.block_type = "empty" \/ y_block.block_type = "empty"
            THEN Go(l, <<>>)
        ELSE IF x_block.block_type = "none" \/ y_block.block_type = "none"
            THEN Go(l, <<>>)
        ELSE Stay(l, l.vx = 0 /\ l.vy = 0)

\* a faulty order: the Y-neighbour is tested for bounds only after the rule
\* of a REFLECT X-neighbour
LaserStepLateYTest(g, l) ==
    IF ~is_within_bounds(g, l.x + l.vx, l.y) THEN Stay(l, TRUE)
    ELSE IF get_block(g, l.x + l.vx, l.y).block_type = "reflect"
        THEN Go(reflect_x(l), <<>>)
    ELSE IF ~is_within_bounds(g, l.x, l.y + l.vy) THEN Stay(l, TRUE)
    ELSE ApplyRules(g, l)

\* One pass through the body of the while loop for laser l on lattice g
LaserStep(g, l) ==
    LET x_new == <<l.x + l.vx, l.y>>
        y_new == <<l.x, l.y + l.vy>>
    IN  IF ~is_within_bounds(g, x_new[1], x_new[2]) THEN Stay(l, TRUE)
        ELSE IF ~is_within_bounds(g, y_new[1], y_new[2]) THEN Stay(l, TRUE)
        ELSE ApplyRules(g, l)

\* one pass of the while loop applied to the loop's variables
PathStep(g, st) ==
    LET s == LaserStep(g, st.laser)
    IN  [laser |-> s.laser,
         positions |-> st.positions \o s.appended,
         new_lasers |-> st.new_lasers \o s.spawned,
         brk |-> s.brk]

RECURSIVE PathLoop(_, _, _)
\* at most n further passes of the while loop, none after a break; the passes
\* are split in halves to keep the evaluation shallow
PathLoop(g, st, n) ==
    IF st.brk \/ n = 0 THEN st
    ELSE IF n = 1 THEN PathStep(g, st)
    ELSE PathLoop(g, PathLoop(g, st, n \div 2), n - (n \div 2))

\* the body of "for laser in laser_objs", given the lasers spawned before it:
\* the while loop runs while steps < MAX_STEPS
TracePath(g, l, new_lasers) ==
    PathLoop(g, [laser |-> l, positions |-> <<current_position(l)>>,
                 new_lasers |-> new_lasers, brk |-> FALSE], MAX_STEPS)

RECURSIVE calculate_laser_path(_, _)
\* positions: one path per laser; new_lasers: the spawned lasers;
\* lasers: the laser objects as the call leaves them
calculate_laser_path(grid_obj, laser_objs) ==
    IF laser_objs = <<>>
    THEN [positions |-> <<>>, new_lasers |-> <<>>, lasers |-> <<>>]
    ELSE LET n    == Len(laser_objs)
             rest == calculate_laser_path(grid_obj, SubSeq(laser_objs, 1, n - 1))
             t    == TracePath(grid_obj, laser_objs[n], rest.new_lasers)
         IN  [positions |-> Append(rest.positions, t.positions),
              new_lasers |-> t.new_lasers,
              lasers |-> Append(rest.lasers, t.laser)]

----------------------------------------------------------------------------
(* process_laser_paths *)

SeqRange(s) == {s[i] : i \in DOMAIN s}

\* every point of every path of a calculate_laser_path result
PathPoints(positions) == UNION {SeqRange(positions[i]) : i \in DOMAIN positions}

\* a faulty filter: the bounds test is left out
NoBoundsTest(g, pts) == pts

\* the points that pass "if self.grid.is_within_bounds(x, y)"
InBounds(g, pts) == {p \in pts : is_within_bounds(g, p[1], p[2])}

\* a faulty marking: the block type of the cell is not looked at
MarkAnyCell(g, pts) ==
    [r \in 1..Height(g) |->
        [c \in 1..Width(g) |->
            IF <<c - 1, r - 1>> \in pts THEN Block("laser", TRUE) ELSE g[r][c]]]

\* the nested for loops over the paths: the lattice after the trace marks
MarkTrace(g, pts) ==
    [r \in 1..Height(g) |->
        [c \in 1..Width(g) |->
            IF <<c - 1, r - 1>> \in pts /\ g[r][c].block_type \in {"empty", "none"}
            THEN Block("laser", TRUE)
            ELSE g[r][c]]]

\* A queue entry is a laser object and, for an emitter, its index in the list
\* the queue was built from (0 for a spawned laser): the queue holds the
\* emitter objects themselves, so tracing one changes that emitter.
QueueOf(ls) == [i \in 1..Len(ls) |-> [laser |-> ls[i], ref |-> i]]

\* a faulty extension of the queue: the spawned lasers join it last first
SpawnedBackwards(new_lasers) ==
    [i \in 1..Len(new_lasers) |->
        [laser |-> new_lasers[Len(new_lasers) + 1 - i], ref |-> 0]]

Spawned(new_lasers) == [i \in 1..Len(new_lasers) |-> [laser |-> new_lasers[i], ref |-> 0]]

\* One pass through the body of "while laser_queue"
ProcessOne(g, queue, hit, ls) ==
    LET current_laser == Head(queue)
        laser_data == calculate_laser_path(g, <<current_laser.laser>>)
        pts == InBounds(g, PathPoints(laser_data.positions))
    IN  [grid |-> MarkTrace(g, pts),
         laser_queue |-> Tail(queue) \o Spawned(laser_data.new_lasers),
         hit_points |-> hit \cup pts,
         lasers |-> IF current_laser.ref = 0 THEN ls
                    ELSE [ls EXCEPT ![current_laser.ref] = laser_data.lasers[1]],
         appended |-> PathPoints(laser_data.positions)]

\* a faulty coverage test: one target hit is enough
SomeTargetHit(targets, hit) == \E t \in targets : t \in hit

\* the value process_laser_paths returns: points.issubset(hit_points)
TargetsHit(targets, hit) == targets \subseteq hit

RECURSIVE QueueLoop(_, _, _, _, _)
QueueLoop(g, queue, hit, ls, fuel) ==
    IF queue = <<>> THEN [finished |-> TRUE, grid |-> g, hit_points |-> hit, lasers |-> ls]
    ELSE IF fuel = 0 THEN [finished |-> FALSE, grid |-> g, hit_points |-> hit, lasers |-> ls]
    ELSE LET s == ProcessOne(g, queue, hit, ls)
         IN  QueueLoop(s.grid, s.laser_queue, s.hit_points, s.lasers, fuel - 1)

\* process_laser_paths as a function of the lattice, the emitters and the
\* targets, unrolled for at most MaxLasers queue entries: finished says the
\* queue emptied, result is the value returned in that case
process_laser_paths(g, ls, targets) ==
    LET r == QueueLoop(g, QueueOf(ls), {}, ls, MaxLasers)
    IN  [finished |-> r.finished,
         result |-> TargetsHit(targets, r.hit_points),
         grid |-> r.grid, hit_points |-> r.hit_points, lasers |-> r.lasers]

----------------------------------------------------------------------------
(* all_possible_configs, place_blocks_in_grid *)

\* the keys of the budget dictionary in its insertion order
BlockLetters == <<"A", "B", "C">>

block_type_mapping == [A |-> "reflect", B |-> "opaque", C |-> "refract"]

Repeat(v, n) == [i \in 1..n |-> v]

RECURSIVE BlockListBackwards(_, _)
\* a faulty block list: the letters are taken in the order C, B, A
BlockListBackwards(block_dict, i) ==
    IF i > Len(BlockLetters) THEN <<>>
    ELSE BlockListBackwards(block_dict, i + 1)
         \o Repeat(BlockLetters[i], block_dict[BlockLetters[i]])

RECURSIVE BlockList(_, _)
\* one entry per budgeted block: count copies of each letter, from letter i on
BlockList(block_dict, i) ==
    IF i > Len(BlockLetters) THEN <<>>
    ELSE Repeat(BlockLetters[i], block_dict[BlockLetters[i]])
         \o BlockList(block_dict, i + 1)

PrependAll(i, tuples) == [j \in 1..Len(tuples) |-> <<i>> \o tuples[j]]

RECURSIVE itertools_combinations(_, _, _)
\* itertools.combinations over the indices lo..n taken r at a time: the index
\* tuples in the order they are emitted
itertools_combinations(n, r, lo) ==
    IF r = 0 THEN << <<>> >>
    ELSE IF lo > n THEN <<>>
    ELSE PrependAll(lo, itertools_combinations(n, r - 1, lo + 1)) \o itertools_combinations(n, r, lo + 1)

RECURSIVE itertools_product(_, _, _, _)
\* a faulty enumeration: itertools.product, which may repeat an index
itertools_product(n, r, used, lo) ==
    IF r = 0 THEN << <<>> >>
    ELSE IF lo > n THEN <<>>
    ELSE PrependAll(lo, itertools_product(n, r - 1, used, 1))
         \o itertools_product(n, r, used, lo + 1)

RECURSIVE itertools_permutations(_, _, _, _)
\* itertools.permutations of the indices 1..n not in used, r at a time, the
\* first index being at least lo
itertools_permutations(n, r, used, lo) ==
    IF r = 0 THEN << <<>> >>
    ELSE IF lo > n THEN <<>>
    ELSE (IF lo \in used THEN <<>>
          ELSE PrependAll(lo, itertools_permutations(n, r - 1, used \cup {lo}, 1)))
         \o itertools_permutations(n, r, used, lo + 1)

\* a faulty enumerator: combinations also when the kinds differ
combinations_only(grid_obj, block_dict) ==
    LET available_positions == find_empty_positions(grid_obj)
        chosen == itertools_combinations(Len(available_positions),
                                         Len(BlockList(block_dict, 1)), 1)
    IN  [j \in 1..Len(chosen) |->
            [i \in 1..Len(chosen[j]) |-> available_positions[chosen[j][i]]]]

all_possible_configs(grid_obj, block_dict) ==
    LET block_list == BlockList(block_dict, 1)
        available_positions == find_empty_positions(grid_obj)
        all_same_type == \A i \in DOMAIN block_list : block_list[i] = block_list[1]
        n == Len(available_positions)
        chosen == IF all_same_type
                  THEN itertools_combinations(n, Len(block_list), 1)
                  ELSE itertools_permutations(n, Len(block_list), {}, 1)
    IN  [j \in 1..Len(chosen) |->
            [i \in 1..Len(chosen[j]) |-> available_positions[chosen[j][i]]]]

Min(a, b) == IF a < b THEN a ELSE b

RECURSIVE PlaceFrom(_, _, _, _)
\* the zip loop of place_blocks_in_grid from pair i on
PlaceFrom(g, config, block_list, i) ==
    IF i > Min(Len(config), Len(block_list)) THEN g
    ELSE PlaceFrom(set_block(g, config[i][1], config[i][2],
                             Block(block_type_mapping[block_list[i]], FALSE)),
                   config, block_list, i + 1)

\* a faulty placement: the zip loop misses its first pair
place_blocks_from_second(g, blocks, config) == PlaceFrom(g, config, BlockList(blocks, 1), 2)

place_blocks_in_grid(g, blocks, config) == PlaceFrom(g, config, BlockList(blocks, 1), 1)

\* a faulty reset: the direction components are passed in the wrong order
reset_lasers_swapped(init_ls) ==
    [i \in 1..Len(init_ls) |-> Laser(init_ls[i].x, init_ls[i].y, init_ls[i].vy, init_ls[i].vx)]

reset_lasers(init_ls) ==
    [i \in 1..Len(init_ls) |-> Laser(init_ls[i].x, init_ls[i].y, init_ls[i].vx, init_ls[i].vy)]

reset_to_initial(init_g) == init_g

----------------------------------------------------------------------------
(* The puzzles the model is run on *)

\* the 2x2 character grid "oo / oo"
AllOpen == << <<"o", "o">>, <<"o", "o">> >>

\* the 2x2 character grid "xx / xx"
AllForbidden == << <<"x", "x">>, <<"x", "x">> >>

OneCharFrom(board, chars) ==
    {[board EXCEPT ![r][c] = ch] :
        r \in DOMAIN board, c \in DOMAIN board[1], ch \in chars}

\* "oo / oo" and "xx / xx", and every grid that differs from one of them in
\* one character
Boards ==
    {AllOpen, AllForbidden}
        \cup OneCharFrom(AllOpen, {"x", "A", "B", "C"})
        \cup OneCharFrom(AllForbidden, {"o", "A", "B", "C"})

\* "A a", "B b", "C c" lines with a + b + c <= MaxBlocks
Budgets ==
    {b \in [A : 0..MaxBlocks, B : 0..MaxBlocks, C : 0..MaxBlocks] :
        b.A + b.B + b.C <= MaxBlocks}

\* "L x y vx vy" lines: emitters on the border and inside the lattice, one with
\* a zero direction component and one whose origin is outside the lattice
Emitters ==
    {Laser(1, 0, 1, 1), Laser(2, 1, 1, 1), Laser(4, 3, -1, -1),
     Laser(2, 3, -1, -1), Laser(1, 0, 0, 1), Laser(5, 1, -1, 1)}

\* no emitter, one emitter, and one list of two
EmitterLists ==
    {<<>>, <<Laser(1, 0, 1, 1), Laser(4, 3, -1, -1)>>} \cup {<<e>> : e \in Emitters}

\* "P x y" lines
TargetSets == {{}, {<<3, 2>>}, {<<1, 2>>, <<3, 2>>}, {<<4, 1>>}}

----------------------------------------------------------------------------
(* LazorGame.__init__ and solve *)

\* no Grid method has been called directly
NoCall == [op |-> "none"]

\* no laser is being traced
NoLaser == [laser |-> Laser(0, 0, 0, 0), ref |-> 0]

Init ==
    \E board \in Boards, ls \in EmitterLists, ts \in TargetSets, budget \in Budgets :
        /\ grid = read_bff_grid(board)
        /\ initial_grid = read_bff_grid(board)
        /\ lasers = ls
        /\ initial_lasers = ls
        /\ points = ts
        /\ available_blocks = budget
        /\ solution_found = FALSE
        /\ block_configurations = <<>>
        /\ ci = 0
        /\ pc = "init"
        /\ laser_queue = <<>>
        /\ hit_points = {}
        /\ recorded = {}
        /\ seen = {}
        /\ file_lines = board
        /\ call = NoCall
        /\ cur_laser = NoLaser
        /\ steps = 0
        /\ current_positions = <<>>
        /\ cur_new_lasers = <<>>

\* solve() is entered: the enumerator is run on the working grid
Solve ==
    /\ pc = "init"
    /\ block_configurations' = all_possible_configs(grid, available_blocks)
    /\ ci' = 1
    /\ pc' = "loop"
    /\ UNCHANGED <<grid, initial_grid, lasers, initial_lasers, points,
                   available_blocks, solution_found, laser_queue, hit_points,
                   recorded, seen>>
    /\ UNCHANGED <<file_lines, call, sim_locals>>

\* the for loop takes its next config, places it, and process_laser_paths
\* builds its queue and its empty visited set
PlaceBlocks ==
    /\ pc = "loop"
    /\ ci <= Len(block_configurations)
    /\ grid' = place_blocks_in_grid(grid, available_blocks, block_configurations[ci])
    /\ laser_queue' = QueueOf(lasers)
    /\ hit_points' = {}
    /\ recorded' = {}
    /\ seen' = {}
    /\ pc' = "sim"
    /\ UNCHANGED <<initial_grid, lasers, initial_lasers, points, available_blocks,
                   solution_found, block_configurations, ci>>
    /\ UNCHANGED <<file_lines, call, sim_locals>>

\* one pass of "while laser_queue"
ProcessLaser ==
    /\ pc = "sim"
    /\ laser_queue # <<>>
    /\ LET s == ProcessOne(grid, laser_queue, hit_points, lasers)
       IN  /\ Len(s.laser_queue) <= MaxQueue
           /\ grid' = s.grid
           /\ laser_queue' = s.laser_queue
           /\ hit_points' = s.hit_points
           /\ lasers' = s.lasers
           /\ recorded' = recorded \cup s.appended
           /\ seen' = seen \cup {<<grid, laser_queue>>}
    /\ UNCHANGED <<initial_grid, initial_lasers, points, available_blocks,
                   solution_found, block_configurations, ci, pc>>
    /\ UNCHANGED <<file_lines, call, sim_locals>>

\* the queue is empty and every target was hit: solve() returns True
SolutionFound ==
    /\ pc = "sim"
    /\ laser_queue = <<>>
    /\ TargetsHit(points, hit_points)
    /\ solution_found' = TRUE
    /\ pc' = "returned_true"
    /\ UNCHANGED <<grid, initial_grid, lasers, initial_lasers, points,
                   available_blocks, block_configurations, ci, laser_queue,
                   hit_points, recorded, seen>>
    /\ UNCHANGED <<file_lines, call, sim_locals>>

\* the queue is empty and a target was missed: the game is reset
ResetGame ==
    /\ pc = "sim"
    /\ laser_queue = <<>>
    /\ ~TargetsHit(points, hit_points)
    /\ grid' = reset_to_initial(initial_grid)
    /\ lasers' = reset_lasers(initial_lasers)
    /\ ci' = ci + 1
    /\ pc' = "loop"
    /\ UNCHANGED <<initial_grid, initial_lasers, points, available_blocks,
                   solution_found, block_configurations, laser_queue,
                   hit_points, recorded, seen>>
    /\ UNCHANGED <<file_lines, call, sim_locals>>

\* the for loop is exhausted: solve() returns False
NoSolution ==
    /\ pc = "loop"
    /\ ci > Len(block_configurations)
    /\ pc' = "returned_false"
    /\ UNCHANGED <<grid, initial_grid, lasers, initial_lasers, points,
                   available_blocks, solution_found, block_configurations, ci,
                   laser_queue, hit_points, recorded, seen>>
    /\ UNCHANGED <<file_lines, call, sim_locals>>

Next ==
    \/ Solve
    \/ PlaceBlocks
    \/ ProcessLaser
    \/ SolutionFound
    \/ ResetGame
    \/ NoSolution

Spec == Init /\ [][Next]_vars

----------------------------------------------------------------------------
(* What the claims are stated in *)

Returned == pc \in {"returned_true", "returned_false"}

\* the next pass of the simulator would grow the queue past MaxQueue: the
\* model does not follow the simulation further
QueueOverflow ==
    /\ pc = "sim"
    /\ laser_queue # <<>>
    /\ Len(ProcessOne(grid, laser_queue, hit_points, lasers).laser_queue) > MaxQueue

KindOf == [reflect |-> "A", opaque |-> "B", refract |-> "C"]

EmptyCells(g) ==
    {p \in (0..Width(g) - 1) \X (0..Height(g) - 1) : is_empty(get_block(g, p[1], p[2]))}

\* Every way to put the budgeted blocks on pairwise distinct EMPTY cells of
\* g0: a function from the EMPTY cells to a kind, or "empty" for a cell left
\* free, that uses each kind as often as the budget says
Assignments(g0, budget) ==
    {f \in [EmptyCells(g0) -> {"empty", "reflect", "opaque", "refract"}] :
        \A k \in {"reflect", "opaque", "refract"} :
            Cardinality({p \in EmptyCells(g0) : f[p] = k}) = budget[KindOf[k]]}

Assigned(g0, f) ==
    [r \in 1..Height(g0) |->
        [c \in 1..Width(g0) |->
            IF <<c - 1, r - 1>> \in DOMAIN f /\ f[<<c - 1, r - 1>>] # "empty"
            THEN Block(f[<<c - 1, r - 1>>], FALSE)
            ELSE g0[r][c]]]

\* some assignment of the budget makes the lasers hit every target
CoveringPlacementExists ==
    \E f \in Assignments(initial_grid, available_blocks) :
        points \subseteq
            process_laser_paths(Assigned(initial_grid, f), initial_lasers, points).hit_points

\* The simulator is deterministic and what it does next depends only on the
\* lattice and the queue: once a (grid, queue) pair recurs, the while loop
\* never ends.
SimulatorLoops == pc = "sim" /\ <<grid, laser_queue>> \in seen

Odd(n) == n % 2 = 1

\* the emitters the puzzle format intends: inside the lattice, on a point with
\* exactly one odd coordinate, with a diagonal unit direction
WellFormedEmitters ==
    \A i \in DOMAIN initial_lasers :
        LET l == initial_lasers[i]
        IN  /\ is_within_bounds(initial_grid, l.x, l.y)
            /\ Odd(l.x) # Odd(l.y)
            /\ l.vx \in {-1, 1} /\ l.vy \in {-1, 1}

\* C4: every run of the simulator ends: no pass of the while loop brings back
\* a lattice and queue the run has already been in, so the queue becomes
\* empty. Stated for the well-formed emitters, the narrowest reading of "every
\* list of emitters".
C4_SimulationTerminates == WellFormedEmitters => ~SimulatorLoops

\* C1: when some placement of the budget covers every target, solve() neither
\* runs forever nor returns False. Stated for the well-formed emitters.
C1_SolvableIsSolved ==
    (WellFormedEmitters /\ (SimulatorLoops \/ pc = "returned_false"))
        => ~CoveringPlacementExists

----------------------------------------------------------------------------
(* The solver's results *)

Cells(g) == (0..Width(g) - 1) \X (0..Height(g) - 1)

BlockKinds == {"reflect", "opaque", "refract"}

\* the cells of g that hold a movable block of kind k
MovableOf(g, k) == {p \in Cells(g) : get_block(g, p[1], p[2]) = Block(k, FALSE)}

\* g differs from g0 only by movable blocks on cells that were EMPTY and not
\* fixed, and by trace marks on cells that were EMPTY or NONE
DiffersByPlacementAndTrace(g, g0) ==
    \A p \in Cells(g0) :
        LET b  == get_block(g, p[1], p[2])
            b0 == get_block(g0, p[1], p[2])
        IN  \/ b = b0
            \/ b = Block("laser", TRUE) /\ b0.block_type \in {"empty", "none"}
            \/ b.block_type \in BlockKinds /\ ~b.fixed /\ is_empty(b0)

\* C2: when solve() returns True, the grid is the initial lattice plus exactly
\* the budgeted movable blocks, each on a cell that was EMPTY and not fixed,
\* plus trace marks, and every target is among the points the lasers visited
C2_ReturnedTrueIsSolution ==
    pc = "returned_true" =>
        /\ DiffersByPlacementAndTrace(grid, initial_grid)
        /\ \A k \in BlockKinds :
               Cardinality(MovableOf(grid, k)) = available_blocks[KindOf[k]]
        /\ points \subseteq recorded
        /\ points \subseteq hit_points
        /\ solution_found

\* solve() returned True for a puzzle with two targets after placing a refractor
C2_Witness ==
    /\ pc = "returned_true"
    /\ available_blocks.C >= 1
    /\ Cardinality(points) = 2
    /\ MovableOf(grid, "refract") # {}

\* C3: when solve() returns False, every assignment of the budget to distinct
\* EMPTY cells of the initial lattice has a simulation that ends with a target
\* missed; returning False is an ordinary end of solve()
C3_ReturnedFalseIsInfeasible ==
    pc = "returned_false" =>
        /\ ~solution_found
        /\ \A f \in Assignments(initial_grid, available_blocks) :
               LET r == process_laser_paths(Assigned(initial_grid, f), initial_lasers, points)
               IN  r.finished /\ ~(points \subseteq r.hit_points)

\* solve() returned False after trying the placements of blocks of two kinds
C3_Witness ==
    /\ pc = "returned_false"
    /\ Cardinality({k \in BlockKinds : available_blocks[KindOf[k]] > 0}) = 2
    /\ Len(block_configurations) > 1

\* what process_laser_paths does with configuration j applied to the initial lattice
Trial(j) ==
    process_laser_paths(
        place_blocks_in_grid(initial_grid, available_blocks, block_configurations[j]),
        initial_lasers, points)

\* C5: when solve() returns True, the placement on the grid is the first one in
\* the enumerator's order whose simulation covers every target: each earlier
\* one was simulated to its end and missed a target, and the cursor is still
\* on the covering one
C5_FirstCoveringPlacement ==
    pc = "returned_true" =>
        /\ ci \in 1..Len(block_configurations)
        /\ Trial(ci).finished /\ Trial(ci).grid = grid
        /\ points \subseteq Trial(ci).hit_points
        /\ \A j \in 1..(ci - 1) :
               Trial(j).finished /\ ~(points \subseteq Trial(j).hit_points)

\* solve() returned True on a placement that is not the first of the list
C5_Witness == pc = "returned_true" /\ ci >= 3

----------------------------------------------------------------------------
(* The solver's loop *)

\* C6: every step that ends an iteration without a solution, or ends solve()
\* with False, leaves the working grid equal to the initial lattice and the
\* working emitters equal to the puzzle's; no step changes the stored initial
\* lattice or the stored initial emitters
C6_SnapshotDiscipline ==
    [][/\ pc' \in {"loop", "returned_false"} =>
              (grid' = initial_grid' /\ lasers' = initial_lasers')
       /\ initial_grid' = initial_grid
       /\ initial_lasers' = initial_lasers]_vars

\* an iteration has failed after the simulator marked the grid and moved an
\* emitter, and the game has been reset
C6_Witness ==
    /\ pc = "loop"
    /\ ci = 2
    /\ hit_points # {}
    /\ lasers # <<>>
    /\ grid = initial_grid
    /\ lasers = initial_lasers
    /\ \E p \in hit_points : p # <<initial_lasers[1].x, initial_lasers[1].y>>

ChangedCells == {p \in Cells(grid) : get_block(grid', p[1], p[2]) # get_block(grid, p[1], p[2])}

\* C7 as stated: every write to the working grid during solve() targets a cell
\* that was EMPTY and not fixed (the reset of the grid aside). Stated for the
\* well-formed emitters.
C7_WritesOnlyOnEmptyCells ==
    [][(WellFormedEmitters /\ pc' # "loop") =>
          \A p \in ChangedCells :
              /\ is_empty(get_block(grid, p[1], p[2]))
              /\ is_empty(get_block(initial_grid, p[1], p[2]))]_vars

\* C7 as amended: a block is placed only on a cell that is EMPTY and not fixed
\* (in the working grid and in the initial lattice); the simulator writes only
\* trace marks, and only on cells of type empty or none, the fixed NONE cells
\* among them; no REFLECT, OPAQUE or REFRACT block, fixed or placed, is ever
\* overwritten
C7_WritesSpareBlocks ==
    [][pc' # "loop" =>
          \A p \in ChangedCells :
              LET b == get_block(grid, p[1], p[2])
              IN  /\ b.block_type \notin BlockKinds
                  /\ pc = "loop" =>
                        /\ is_empty(b)
                        /\ is_empty(get_block(initial_grid, p[1], p[2]))
                  /\ pc = "sim" =>
                        /\ b.block_type \in {"empty", "none"}
                        /\ get_block(grid', p[1], p[2]) = Block("laser", TRUE)]_vars

\* a block has been placed and the simulator has marked a fixed NONE cell
C7_Witness ==
    /\ pc = "sim"
    /\ \E k \in BlockKinds : MovableOf(grid, k) # {}
    /\ \E p \in Cells(grid) :
           /\ get_block(grid, p[1], p[2]) = Block("laser", TRUE)
           /\ get_block(initial_grid, p[1], p[2]) = Block("none", TRUE)

----------------------------------------------------------------------------
(* The enumerator *)

RECURSIVE Factorial(_)
Factorial(n) == IF n = 0 THEN 1 ELSE n * Factorial(n - 1)

\* C(n, k) and P(n, k), 0 when k > n
Choose(n, k) == IF k > n THEN 0 ELSE Factorial(n) \div (Factorial(k) * Factorial(n - k))

Arrange(n, k) == IF k > n THEN 0 ELSE Factorial(n) \div Factorial(n - k)

BudgetTotal == available_blocks.A + available_blocks.B + available_blocks.C

\* at most one kind has a non-zero count
SingleKind == Cardinality({k \in BlockKinds : available_blocks[KindOf[k]] > 0}) <= 1

\* the EMPTY non-fixed cells of the initial lattice, y ascending, then x ascending
RowMajorBefore(p, q) == p[2] < q[2] \/ (p[2] = q[2] /\ p[1] < q[1])

\* the rank of an EMPTY cell among the EMPTY cells in row-major order
Rank(p) == 1 + Cardinality({q \in EmptyCells(initial_grid) : RowMajorBefore(q, p)})

\* s comes before t in lexicographic order of the ranks of their positions
LexBefore(s, t) ==
    \E i \in 1..Len(s) :
        /\ \A j \in 1..(i - 1) : s[j] = t[j]
        /\ Rank(s[i]) < Rank(t[i])

\* cfg is a tuple of k EMPTY cells, pairwise distinct; a combination lists
\* them in row-major order
IsArrangement(cfg, k) ==
    /\ Len(cfg) = k
    /\ \A i \in 1..k : cfg[i] \in EmptyCells(initial_grid)
    /\ \A i, j \in 1..k : i # j => cfg[i] # cfg[j]

IsCombination(cfg, k) ==
    /\ IsArrangement(cfg, k)
    /\ \A i \in 1..(k - 1) : Rank(cfg[i]) < Rank(cfg[i + 1])

\* C8: with n EMPTY positions and k budgeted blocks, the enumerator returns
\* the C(n, k) combinations in lexicographic order when at most one kind has a
\* non-zero count, and the P(n, k) permutations in lexicographic order
\* otherwise: every entry is such a tuple, the entries ascend strictly, and
\* there are C(n, k) or P(n, k) of them (6 for n = 4 and two REFLECT, 12 for
\* n = 4 and one REFLECT and one OPAQUE)
C8_EnumeratorOutput ==
    pc # "init" =>
        LET n == Cardinality(EmptyCells(initial_grid))
            k == BudgetTotal
            m == Len(block_configurations)
        IN  /\ m = IF SingleKind THEN Choose(n, k) ELSE Arrange(n, k)
            /\ \A j \in 1..m :
                   IF SingleKind THEN IsCombination(block_configurations[j], k)
                   ELSE IsArrangement(block_configurations[j], k)
            /\ \A j \in 1..(m - 1) :
                   LexBefore(block_configurations[j], block_configurations[j + 1])
            /\ (n = 4 /\ available_blocks = [A |-> 2, B |-> 0, C |-> 0]) => m = 6
            /\ (n = 4 /\ available_blocks = [A |-> 1, B |-> 1, C |-> 0]) => m = 12

\* the enumerator has returned the 12 permutations for n = 4, one REFLECT and
\* one OPAQUE
C8_Witness ==
    /\ pc = "loop"
    /\ Cardinality(EmptyCells(initial_grid)) = 4
    /\ available_blocks = [A |-> 1, B |-> 1, C |-> 0]
    /\ Len(block_configurations) = 12

\* the kind of the i-th block of [REFLECT]*a ++ [OPAQUE]*b ++ [REFRACT]*c
KindAt(i) ==
    IF i <= available_blocks.A THEN "reflect"
    ELSE IF i <= available_blocks.A + available_blocks.B THEN "opaque"
    ELSE "refract"

\* C9: while the simulator runs, the placement applied has k = a + b + c
\* pairwise distinct positions, all EMPTY non-fixed cells of the initial
\* lattice, the i-th holding a movable block of the i-th kind, and the grid
\* holds exactly a REFLECT, b OPAQUE and c REFRACT movable blocks
C9_PlacementApplied ==
    pc = "sim" =>
        LET cfg == block_configurations[ci]
        IN  /\ IsArrangement(cfg, BudgetTotal)
            /\ \A i \in 1..Len(cfg) :
                   get_block(grid, cfg[i][1], cfg[i][2]) = Block(KindAt(i), FALSE)
            /\ \A k \in BlockKinds :
                   Cardinality(MovableOf(grid, k)) = available_blocks[KindOf[k]]

\* the simulator has run on a placement of one OPAQUE and one REFRACT block
C9_Witness ==
    /\ pc = "sim"
    /\ available_blocks = [A |-> 0, B |-> 1, C |-> 1]
    /\ hit_points # {}

----------------------------------------------------------------------------
(* The visited set *)

OnLattice(p) ==
    /\ 0 <= p[1] /\ p[1] < Len(initial_grid[1])
    /\ 0 <= p[2] /\ p[2] < Len(initial_grid)

\* C10: the visited set is exactly the set of in-bounds points recorded on the
\* paths of the lasers processed so far; when the queue is empty it holds the
\* in-bounds emitter origins, and the start point of every laser spawned is
\* recorded; solve() goes on to return True exactly when every target is in
\* that set
C10_VisitedIsRecordedInBounds ==
    /\ hit_points = {p \in recorded : OnLattice(p)}
    /\ \A i \in DOMAIN laser_queue :
           laser_queue[i].ref = 0 =>
               <<laser_queue[i].laser.x, laser_queue[i].laser.y>> \in recorded
    /\ (pc = "sim" /\ laser_queue = <<>>) =>
           \A i \in DOMAIN initial_lasers :
               <<initial_lasers[i].x, initial_lasers[i].y>> \in recorded
    /\ pc = "returned_true" => \A t \in points : t \in recorded /\ OnLattice(t)
    /\ (pc \in {"loop", "returned_false"} /\ ci > 1) =>
           \E t \in points : ~(t \in recorded /\ OnLattice(t))

\* a simulation has ended with a recorded point outside the lattice and with
\* points visited
C10_Witness ==
    /\ pc = "sim"
    /\ laser_queue = <<>>
    /\ \E p \in recorded : ~OnLattice(p)
    /\ hit_points # {}

----------------------------------------------------------------------------
(* The single-reflector scenario *)

\* "oo / oo", one REFLECT to place, one emitter at (1, 0) with direction
\* (0, 1), the single target (3, 2)
ScenarioB ==
    /\ initial_grid = read_bff_grid(AllOpen)
    /\ available_blocks = [A |-> 1, B |-> 0, C |-> 0]
    /\ initial_lasers = <<Laser(1, 0, 0, 1)>>
    /\ points = {<<3, 2>>}

\* C11 as stated: on that puzzle solve() returns a solution with the REFLECT
\* on lattice cell (1, 1), and the laser's path on that grid reaches (3, 2)
C11_ReflectorTurnsLaserToTarget ==
    (ScenarioB /\ Returned) =>
        /\ pc = "returned_true"
        /\ get_block(grid, 1, 1) = Block("reflect", FALSE)
        /\ <<3, 2>> \in hit_points

\* C11 as amended: on that puzzle solve() returns False after trying the four
\* placements. A laser with vx = 0 never leaves the column x = 1, so no
\* recorded point is (3, 2); with the REFLECT on (1, 1) the laser is turned
\* back at its first step and its path is (1, 0), (1, -1).
C11_ScenarioBIsInfeasible ==
    ScenarioB =>
        /\ pc # "returned_true"
        /\ \A p \in recorded : p[1] = 1
        /\ <<3, 2>> \notin hit_points
        /\ (pc = "sim" /\ ci = 1 /\ laser_queue = <<>>) =>
               /\ get_block(grid, 1, 1) = Block("reflect", FALSE)
               /\ recorded = {<<1, 0>>, <<1, -1>>}
        /\ pc = "returned_false" => ci = 5

\* solve() has returned False on that puzzle after its four placements
C11_Witness == ScenarioB /\ pc = "returned_false" /\ ci = 5 /\ ~solution_found

----------------------------------------------------------------------------
(* read_bff_file on its own: the grid section of a file and the lattice    *)
(* returned for it                                                         *)

\* most lines of a grid section, and most cell characters of a line
MaxRows == 2

MaxCols == 3

GridChars == {"x", "o", "A", "B", "C"}

Uniform(M, N, ch) == [r \in 1..M |-> [c \in 1..N |-> ch]]

\* the grids of M lines of N characters that are all "o" or all "x" but for at
\* most two characters
CharGrids(M, N) ==
    {[[Uniform(M, N, bg) EXCEPT ![r1][c1] = ch1] EXCEPT ![r2][c2] = ch2] :
        bg \in {"o", "x"}, r1 \in 1..M, c1 \in 1..N, ch1 \in GridChars,
        r2 \in 1..M, c2 \in 1..N, ch2 \in GridChars}

\* a line written with a blank between its characters, as in the puzzle files
Spaced(line) ==
    [i \in 1..(2 * Len(line) - 1) |-> IF i % 2 = 1 THEN line[(i + 1) \div 2] ELSE " "]

SpacedLines(lines) == [r \in 1..Len(lines) |-> Spaced(lines[r])]

\* the grid section of the file of test_read_bff_file_complex
TestFile ==
    SpacedLines(<< <<"x", "o", "o", "A", "o", "x">>,
                   <<"B", "o", "o", "o", "o", "C">>,
                   <<"x", "x", "o", "o", "x", "x">>,
                   <<"x", "o", "o", "B", "o", "x">>,
                   <<"A", "o", "o", "o", "o", "B">> >>)

Files ==
    LET plain == UNION {CharGrids(M, N) : M \in 1..MaxRows, N \in 1..MaxCols}
    IN  plain \cup {SpacedLines(f) : f \in plain} \cup {TestFile}

ParserInit ==
    /\ file_lines \in Files
    /\ pc = "file"
    /\ grid = <<>>
    /\ initial_grid = <<>>
    /\ lasers = <<>>
    /\ initial_lasers = <<>>
    /\ points = {}
    /\ available_blocks = [A |-> 0, B |-> 0, C |-> 0]
    /\ solution_found = FALSE
    /\ block_configurations = <<>>
    /\ ci = 0
    /\ laser_queue = <<>>
    /\ hit_points = {}
    /\ recorded = {}
    /\ seen = {}
    /\ call = NoCall
    /\ cur_laser = NoLaser
    /\ steps = 0
    /\ current_positions = <<>>
    /\ cur_new_lasers = <<>>

\* read_bff_file(file_path) returns data['grid']
ReadBffFile ==
    /\ pc = "file"
    /\ grid' = read_bff_grid(file_lines)
    /\ pc' = "parsed"
    /\ UNCHANGED <<initial_grid, lasers, initial_lasers, points, available_blocks,
                   solution_found, block_configurations, ci, laser_queue,
                   hit_points, recorded, seen, file_lines, call, sim_locals>>

ParserNext == ReadBffFile

ParserSpec == ParserInit /\ [][ParserNext]_vars

\* the cell characters of a line, in order
CellChars(line) == SelectSeq(line, LAMBDA ch : ch \in GridChars)

\* the block a cell character stands for
BlockOfChar(ch) ==
    CASE ch = "x" -> Block("none", TRUE)
      [] ch = "o" -> Block("empty", FALSE)
      [] ch = "A" -> Block("reflect", TRUE)
      [] ch = "B" -> Block("opaque", TRUE)
      [] ch = "C" -> Block("refract", TRUE)

\* the number of lines of the grid section and the number of cell characters
\* of its first line
FileRows == Len(file_lines)

FileCols == Len(CellChars(file_lines[1]))

C13_UnpaddedGrid ==
    pc = "parsed" =>
        /\ Len(grid) = FileRows
        /\ \A r \in 1..Len(grid) : Len(grid[r]) = FileCols
        /\ \A r \in 1..FileRows, c \in 1..FileCols :
               grid[r][c] = BlockOfChar(CellChars(file_lines[r])[c])
        /\ file_lines = TestFile =>
               /\ Len(grid) = 5 /\ Len(grid[1]) = 6
               /\ grid[1][4].block_type = "reflect"
               /\ grid[2][1].block_type = "opaque"
               /\ grid[2][6].block_type = "refract"

----------------------------------------------------------------------------
(* The Grid methods on their own *)

\* longest side of the grids a Grid is built from
MaxSide == 3

\* the blocks a cell of such a grid may hold
CellBlocks ==
    {Block("none", TRUE), Block("none", FALSE), Block("empty", FALSE),
     Block("empty", TRUE), Block("reflect", TRUE), Block("reflect", FALSE),
     Block("opaque", TRUE), Block("refract", FALSE), Block("laser", TRUE)}

UniformGrid(W, H, b) == [r \in 1..H |-> [c \in 1..W |-> b]]

\* the grid of TestGrid.setUp
TestGrid ==
    << <<Block("none", TRUE), Block("empty", FALSE), Block("reflect", TRUE)>>,
       <<Block("opaque", TRUE), Block("empty", FALSE), Block("refract", TRUE)>> >>

\* the grid of TestGridComplex.setUp
TestGridComplex ==
    << <<Block("none", TRUE), Block("empty", FALSE), Block("reflect", TRUE), Block("empty", FALSE)>>,
       <<Block("opaque", TRUE), Block("empty", FALSE), Block("empty", FALSE), Block("refract", TRUE)>>,
       <<Block("none", TRUE), Block("empty", FALSE), Block("opaque", TRUE), Block("empty", FALSE)>>,
       <<Block("empty", FALSE), Block("empty", FALSE), Block("reflect", TRUE), Block("empty", FALSE)>> >>

\* the grids of TestGridEdgeCases
TestEmptyGrid == UniformGrid(5, 5, Block("empty", FALSE))

TestFullGrid == UniformGrid(4, 4, Block("reflect", TRUE))

\* grids of every size up to MaxSide x MaxSide that are all movable EMPTY or
\* all fixed REFLECT but for one cell, and the grids of the unit tests
Grids ==
    UNION {{[UniformGrid(W, H, bg) EXCEPT ![r][c] = b] :
                bg \in {Block("empty", FALSE), Block("reflect", TRUE)},
                r \in 1..H, c \in 1..W, b \in CellBlocks} :
           W \in 1..MaxSide, H \in 1..MaxSide}
        \cup {TestGrid, TestGridComplex, TestEmptyGrid, TestFullGrid}

GridInit ==
    /\ grid \in Grids
    /\ initial_grid = grid
    /\ pc = "grid"
    /\ call = NoCall
    /\ file_lines = <<>>
    /\ lasers = <<>>
    /\ initial_lasers = <<>>
    /\ points = {}
    /\ available_blocks = [A |-> 0, B |-> 0, C |-> 0]
    /\ solution_found = FALSE
    /\ block_configurations = <<>>
    /\ ci = 0
    /\ laser_queue = <<>>
    /\ hit_points = {}
    /\ recorded = {}
    /\ seen = {}
    /\ cur_laser = NoLaser
    /\ steps = 0
    /\ current_positions = <<>>
    /\ cur_new_lasers = <<>>

\* grid_obj.find_empty_positions()
FindEmptyPositions ==
    /\ pc = "grid"
    /\ call' = [op |-> "find_empty_positions", ret |-> find_empty_positions(grid)]
    /\ UNCHANGED <<grid, initial_grid, lasers, initial_lasers, points,
                   available_blocks, solution_found, block_configurations, ci,
                   pc, laser_queue, hit_points, recorded, seen, file_lines,
                   sim_locals>>

\* grid_obj.place_block(x, y, block_type), once in a run, before or after a
\* call of find_empty_positions, for the positions inside the grid and one
\* cell outside it on every side
PlaceBlock ==
    /\ pc = "grid"
    /\ grid = initial_grid
    /\ call.op # "place_block"
    /\ \E x \in -1..Width(grid), y \in -1..Height(grid),
          block_type \in {"reflect", "opaque", "refract"} :
           LET r == place_block(grid, x, y, block_type)
           IN  /\ grid' = r.grid
               /\ call' = [op |-> "place_block", x |-> x, y |-> y,
                           block_type |-> block_type, ret |-> r.ret]
    /\ UNCHANGED <<initial_grid, lasers, initial_lasers, points,
                   available_blocks, solution_found, block_configurations, ci,
                   pc, laser_queue, hit_points, recorded, seen, file_lines,
                   sim_locals>>

GridNext == FindEmptyPositions \/ PlaceBlock

GridSpec == GridInit /\ [][GridNext]_vars

\* the block at p is EMPTY and not fixed
EmptyMovableAt(g, p) ==
    get_block(g, p[1], p[2]).block_type = "empty" /\ ~get_block(g, p[1], p[2]).fixed

\* C14: the list find_empty_positions returns holds every position whose
\* block is EMPTY and not fixed and no other position, each once, in row-major
\* order (y ascending, then x ascending); it is the empty list when the grid
\* has no such cell
C14_EmptyPositionsRowMajor ==
    call.op = "find_empty_positions" =>
        /\ \A p \in Cells(grid) : EmptyMovableAt(grid, p) <=> p \in SeqRange(call.ret)
        /\ SeqRange(call.ret) \subseteq Cells(grid)
        /\ \A i \in 1..(Len(call.ret) - 1) : RowMajorBefore(call.ret[i], call.ret[i + 1])
        /\ (\A p \in Cells(grid) : ~EmptyMovableAt(grid, p)) => call.ret = <<>>

\* the method has returned three or more positions from two or more rows for
\* a grid that also holds a fixed EMPTY block
C14_Witness ==
    /\ call.op = "find_empty_positions"
    /\ Len(call.ret) >= 3
    /\ call.ret[1][2] # call.ret[Len(call.ret)][2]
    /\ \E p \in Cells(grid) : get_block(grid, p[1], p[2]) = Block("empty", TRUE)

\* C15: place_block(x, y, kind) returns True exactly when (x, y) is in bounds
\* and holds an EMPTY non-fixed block, and then that cell, and no other, is
\* replaced by a non-fixed block of that kind; in every other case it returns
\* False and leaves every cell as it was
C15_PlaceBlockOnlyOnEmpty ==
    [][call'.op = "place_block" /\ call' # call =>
          LET x == call'.x
              y == call'.y
              ok == /\ 0 <= x /\ x < Len(grid[1]) /\ 0 <= y /\ y < Len(grid)
                    /\ EmptyMovableAt(grid, <<x, y>>)
          IN  /\ call'.ret = ok
              /\ ok => grid' = [grid EXCEPT ![y + 1][x + 1] = Block(call'.block_type, FALSE)]
              /\ ~ok => grid' = grid]_vars

\* a block has been placed by place_block on a grid that holds a movable
\* REFLECT elsewhere
C15_Witness ==
    /\ call.op = "place_block"
    /\ call.ret
    /\ get_block(grid, call.x, call.y) = Block(call.block_type, FALSE)
    /\ get_block(initial_grid, call.x, call.y) = Block("empty", FALSE)
    /\ \E p \in Cells(grid) :
           p # <<call.x, call.y>> /\ get_block(grid, p[1], p[2]) = Block("reflect", FALSE)

----------------------------------------------------------------------------
(* The simulator on its own, one pass of the while loop of                 *)
(* calculate_laser_path at a time                                          *)

\* a faulty loop test: one pass too many
LoopContinuesInclusive(n) == n <= MAX_STEPS

\* "while steps < MAX_STEPS"
LoopContinues(n) == n < MAX_STEPS

\* the blocks next to a laser on a grid built by hand
StepBlocks ==
    {Block("empty", FALSE), NoneBlock, Block("reflect", FALSE),
     Block("opaque", TRUE), Block("refract", FALSE), Block("laser", TRUE)}

\* a 3x3 grid with block a left and right of the centre, block b above and
\* below it, block c on it, and NONE in the corners
CrossGrid(a, b, c) ==
    << <<NoneBlock, b, NoneBlock>>, <<a, c, a>>, <<NoneBlock, b, NoneBlock>> >>

CrossGrids ==
    {CrossGrid(a, b, c) :
        a \in StepBlocks, b \in StepBlocks,
        c \in {NoneBlock, Block("refract", FALSE)}}

\* every laser on a point of g with direction components in -1..1
AnyLasers(g) ==
    {Laser(x, y, vx, vy) :
        x \in 0..(Width(g) - 1), y \in 0..(Height(g) - 1),
        vx \in -1..1, vy \in -1..1}

\* every laser on a point of g with exactly one odd coordinate and a diagonal
\* unit direction
DiagonalLasers(g) ==
    {l \in AnyLasers(g) : Odd(l.x) # Odd(l.y) /\ l.vx # 0 /\ l.vy # 0}

\* a 3x3 character grid whose centre cell is open and ringed by reflectors
RingBoard == << <<"A", "A", "A">>, <<"A", "o", "A">>, <<"A", "A", "A">> >>

\* a 2x2 character grid with three reflectors around one corner
ElbowBoard == << <<"A", "A">>, <<"A", "o">> >>

\* the 2x2 character grids without an x that have at most two blocks, the
\* elbow of reflectors, and the boards of the solver's family
SimBoards ==
    {f \in CharGrids(2, 2) : \A r \in 1..2, c \in 1..2 : f[r][c] # "x"}
        \cup {ElbowBoard} \cup Boards

\* What the simulator is run on: a hand-built grid with one laser; the
\* lattice of a 2x2 character grid with one diagonal laser; the lattice of a
\* board of the solver's family with one of its emitter lists; the ring with
\* a laser inside it
SimInputs ==
    {[g |-> g, ls |-> <<l>>, file |-> <<>>] : g \in CrossGrids, l \in AnyLasers(CrossGrid(NoneBlock, NoneBlock, NoneBlock))}
      \cup UNION {{[g |-> read_bff_grid(f), ls |-> <<l>>, file |-> f] :
                      l \in DiagonalLasers(read_bff_grid(f))} : f \in SimBoards}
      \cup {[g |-> read_bff_grid(f), ls |-> ls, file |-> f] : f \in Boards, ls \in EmitterLists}
      \cup {[g |-> read_bff_grid(RingBoard), ls |-> <<l>>, file |-> RingBoard] :
              l \in {Laser(3, 2, 1, 1), Laser(4, 3, -1, 1), Laser(3, 0, 1, 1)}}

\* process_laser_paths(lasers) is entered
SimInit ==
    \E in \in SimInputs :
        /\ grid = in.g
        /\ initial_grid = in.g
        /\ lasers = in.ls
        /\ initial_lasers = in.ls
        /\ file_lines = in.file
        /\ laser_queue = QueueOf(in.ls)
        /\ hit_points = {}
        /\ recorded = {}
        /\ pc = "queue"
        /\ points = {<<3, 2>>}
        /\ available_blocks = [A |-> 0, B |-> 0, C |-> 0]
        /\ solution_found = FALSE
        /\ block_configurations = <<>>
        /\ ci = 0
        /\ seen = {}
        /\ call = NoCall
        /\ cur_laser = NoLaser
        /\ steps = 0
        /\ current_positions = <<>>
        /\ cur_new_lasers = <<>>

\* "current_laser = laser_queue.pop(0)" and the entry of calculate_laser_path
\* for it: the path starts with the laser's position
PopLaser ==
    /\ pc = "queue"
    /\ laser_queue # <<>>
    /\ cur_laser' = Head(laser_queue)
    /\ laser_queue' = Tail(laser_queue)
    /\ current_positions' = <<current_position(Head(laser_queue).laser)>>
    /\ recorded' = recorded \cup {current_position(Head(laser_queue).laser)}
    /\ steps' = 0
    /\ cur_new_lasers' = <<>>
    /\ pc' = "path"
    /\ UNCHANGED <<grid, initial_grid, lasers, initial_lasers, points,
                   available_blocks, solution_found, block_configurations, ci,
                   hit_points, seen, file_lines, call>>

\* one pass through the body of the while loop; an emitter is traced as the
\* object the list of emitters holds
StepLaser ==
    /\ pc = "path"
    /\ LoopContinues(steps)
    /\ LET s == LaserStep(grid, cur_laser.laser)
       IN  /\ steps' = steps + 1
           /\ cur_laser' = [cur_laser EXCEPT !.laser = s.laser]
           /\ lasers' = IF cur_laser.ref = 0 THEN lasers
                        ELSE [lasers EXCEPT ![cur_laser.ref] = s.laser]
           /\ current_positions' = current_positions \o s.appended
           /\ recorded' = recorded \cup SeqRange(s.appended)
           /\ cur_new_lasers' = cur_new_lasers \o s.spawned
           /\ pc' = IF s.brk THEN "trace" ELSE "path"
    /\ UNCHANGED <<grid, initial_grid, initial_lasers, points, available_blocks,
                   solution_found, block_configurations, ci, laser_queue,
                   hit_points, seen, file_lines, call>>

\* the while loop ends because steps has reached MAX_STEPS
StepsExhausted ==
    /\ pc = "path"
    /\ ~LoopContinues(steps)
    /\ pc' = "trace"
    /\ UNCHANGED <<grid, initial_grid, lasers, initial_lasers, points,
                   available_blocks, solution_found, block_configurations, ci,
                   laser_queue, hit_points, recorded, seen, file_lines, call,
                   sim_locals>>

\* calculate_laser_path has returned: the path is added to the visited set
\* and marked on the grid, the spawned lasers join the queue
MarkPath ==
    /\ pc = "trace"
    /\ Len(laser_queue) + Len(cur_new_lasers) <= MaxQueue
    /\ LET pts == InBounds(grid, SeqRange(current_positions))
       IN  /\ grid' = MarkTrace(grid, pts)
           /\ hit_points' = hit_points \cup pts
    /\ laser_queue' = laser_queue \o Spawned(cur_new_lasers)
    /\ pc' = "queue"
    /\ UNCHANGED <<initial_grid, lasers, initial_lasers, points, available_blocks,
                   solution_found, block_configurations, ci, recorded, seen,
                   file_lines, call, sim_locals>>

\* the queue is empty: process_laser_paths returns points.issubset(hit_points)
ReturnCoverage ==
    /\ pc = "queue"
    /\ laser_queue = <<>>
    /\ call' = [op |-> "process_laser_paths", ret |-> TargetsHit(points, hit_points)]
    /\ pc' = "returned"
    /\ UNCHANGED <<grid, initial_grid, lasers, initial_lasers, points,
                   available_blocks, solution_found, block_configurations, ci,
                   laser_queue, hit_points, recorded, seen, file_lines,
                   sim_locals>>

SimNext ==
    \/ PopLaser
    \/ StepLaser
    \/ StepsExhausted
    \/ MarkPath
    \/ ReturnCoverage

SimSpec == SimInit /\ [][SimNext]_vars

----------------------------------------------------------------------------
(* One pass of the loop *)

\* the two cells the laser being traced inspects next
XNeighbour == <<cur_laser.laser.x + cur_laser.laser.vx, cur_laser.laser.y>>

YNeighbour == <<cur_laser.laser.x, cur_laser.laser.y + cur_laser.laser.vy>>

OnGrid(p) == 0 <= p[1] /\ p[1] < Len(grid[1]) /\ 0 <= p[2] /\ p[2] < Len(grid)

TypeAt(p) == grid[p[2] + 1][p[1] + 1].block_type

BothOnGrid == OnGrid(XNeighbour) /\ OnGrid(YNeighbour)

\* the step taken is one pass through the body of the while loop
LoopPass == pc = "path" /\ steps' = steps + 1

\* the pass moves the laser by its direction (vx, vy) and appends the point
\* reached to its path
Moved(vx, vy) ==
    /\ cur_laser'.laser =
           Laser(cur_laser.laser.x + vx, cur_laser.laser.y + vy, vx, vy)
    /\ current_positions' =
           Append(current_positions, <<cur_laser.laser.x + vx, cur_laser.laser.y + vy>>)

\* the pass spawns exactly the lasers of sq
Spawns(sq) == cur_new_lasers' = cur_new_lasers \o sq

\* C16: for a laser whose two neighbours are in bounds, one pass applies the
\* first rule that matches, in the order: X-neighbour REFLECT (vx negated
\* once, move, record); Y-neighbour REFLECT (vy negated once, move, record);
\* a neighbour OPAQUE (velocity (0, 0), position kept, nothing recorded, the
\* laser ends); X-neighbour REFRACT (spawn, move, record); Y-neighbour REFRACT
\* (spawn, move, record); a neighbour EMPTY or NONE (move, record, direction
\* kept). A move adds (vx, vy) to the position.
C16_FirstMatchingRule ==
    [][(LoopPass /\ BothOnGrid) =>
          LET l  == cur_laser.laser
              bx == TypeAt(XNeighbour)
              by == TypeAt(YNeighbour)
              reflects == bx = "reflect" \/ by = "reflect"
              absorbs  == ~reflects /\ (bx = "opaque" \/ by = "opaque")
              refracts == ~reflects /\ ~absorbs /\ (bx = "refract" \/ by = "refract")
          IN  /\ bx = "reflect" =>
                     Moved(-l.vx, l.vy) /\ Spawns(<<>>)
              /\ (bx # "reflect" /\ by = "reflect") =>
                     Moved(l.vx, -l.vy) /\ Spawns(<<>>)
              /\ absorbs =>
                     /\ cur_laser'.laser = Laser(l.x, l.y, 0, 0)
                     /\ current_positions' = current_positions
                     /\ Spawns(<<>>)
                     /\ pc' = "trace"
              /\ refracts =>
                     /\ Moved(l.vx, l.vy)
                     /\ Len(cur_new_lasers') = Len(cur_new_lasers) + 1
              /\ (~reflects /\ ~absorbs /\ ~refracts
                     /\ (bx \in {"empty", "none"} \/ by \in {"empty", "none"})) =>
                     Moved(l.vx, l.vy) /\ Spawns(<<>>)]_vars

\* a laser with a REFLECT X-neighbour and an OPAQUE Y-neighbour has made its
\* first pass and was reflected, not absorbed
C16_Witness ==
    /\ steps = 1
    /\ initial_lasers # <<>>
    /\ LET l0 == initial_lasers[1]
       IN  /\ l0.vx # 0 /\ l0.vy # 0
           /\ OnGrid(<<l0.x + l0.vx, l0.y>>) /\ OnGrid(<<l0.x, l0.y + l0.vy>>)
           /\ TypeAt(<<l0.x + l0.vx, l0.y>>) = "reflect"
           /\ TypeAt(<<l0.x, l0.y + l0.vy>>) = "opaque"
           /\ cur_laser.laser = Laser(l0.x - l0.vx, l0.y + l0.vy, -l0.vx, l0.vy)
           /\ current_positions = <<<<l0.x, l0.y>>, <<l0.x - l0.vx, l0.y + l0.vy>>>>

\* C17: in a pass in which a REFRACT rule applies, the laser keeps its
\* direction and moves on, and exactly one laser is spawned, at the position
\* the laser had before the move, with only the direction component along the
\* refractor's axis negated; no other pass spawns a laser; when the path is
\* finished the spawned lasers, and only they, are appended to the queue
C17_RefractionSpawnsOne ==
    [][/\ (LoopPass /\ BothOnGrid) =>
              LET l  == cur_laser.laser
                  bx == TypeAt(XNeighbour)
                  by == TypeAt(YNeighbour)
                  refracts == /\ bx \notin {"reflect", "opaque"}
                              /\ by \notin {"reflect", "opaque"}
                              /\ (bx = "refract" \/ by = "refract")
              IN  /\ refracts =>
                         /\ cur_laser'.laser = Laser(l.x + l.vx, l.y + l.vy, l.vx, l.vy)
                         /\ cur_new_lasers' =
                                Append(cur_new_lasers,
                                       IF bx = "refract" THEN Laser(l.x, l.y, -l.vx, l.vy)
                                       ELSE Laser(l.x, l.y, l.vx, -l.vy))
                  /\ ~refracts => cur_new_lasers' = cur_new_lasers
       /\ (pc = "trace" /\ pc' = "queue") =>
              laser_queue' =
                  laser_queue \o [i \in 1..Len(cur_new_lasers) |->
                                     [laser |-> cur_new_lasers[i], ref |-> 0]]]_vars

\* a laser spawned at the second point of a path, below a refractor, has
\* joined the queue
C17_Witness ==
    /\ pc = "queue"
    /\ file_lines # <<>>
    /\ Len(current_positions) >= 3
    /\ \E i \in DOMAIN laser_queue :
           /\ laser_queue[i].ref = 0
           /\ <<laser_queue[i].laser.x, laser_queue[i].laser.y>> = current_positions[2]
           /\ laser_queue[i].laser.vy = -cur_laser.laser.vy
           /\ laser_queue[i].laser.vx = cur_laser.laser.vx

\* C18: a pass made when the X-neighbour or the Y-neighbour is outside the
\* grid ends the laser at once, whatever the other neighbour holds: no point
\* is recorded, position and direction are kept, nothing is spawned
C18_OutOfBoundsEndsLaser ==
    [][(LoopPass /\ ~BothOnGrid) =>
          /\ cur_laser' = cur_laser
          /\ lasers' = lasers
          /\ current_positions' = current_positions
          /\ recorded' = recorded
          /\ cur_new_lasers' = cur_new_lasers
          /\ pc' = "trace"]_vars

\* a laser whose Y-neighbour is outside the grid and whose X-neighbour is a
\* REFLECT has ended at its first pass, where it started
C18_Witness ==
    /\ pc = "trace"
    /\ steps = 1
    /\ cur_laser.laser = initial_lasers[1]
    /\ cur_laser.laser.vx # 0
    /\ ~OnGrid(YNeighbour)
    /\ OnGrid(XNeighbour)
    /\ TypeAt(XNeighbour) = "reflect"
    /\ current_positions = <<current_position(initial_lasers[1])>>

NoRefract == \A p \in Cells(grid) : get_block(grid, p[1], p[2]).block_type # "refract"

\* what is left to do at most: every queued laser costs its passes and the
\* steps around them
WorkLeft ==
    Len(laser_queue) * (MAX_STEPS + 4)
        + (CASE pc = "path" -> (MAX_STEPS - steps) + 3
             [] pc = "trace" -> 2
             [] pc = "queue" -> 1
             [] OTHER -> 0)

\* C19: a laser makes at most MAX_STEPS = 500 passes and its path has at most
\* 501 points; at the cap the loop is left like at any other end of a laser;
\* on a lattice without a REFRACT block no laser is spawned and every step
\* brings the simulation nearer to its end, so it ends after at most 500
\* passes for each emitter
C19_StepCap ==
    [][/\ steps' <= MAX_STEPS
       /\ Len(current_positions') <= steps' + 1
       /\ Len(current_positions') <= 501
       /\ (pc = "path" /\ steps = MAX_STEPS) =>
              (pc' = "trace" /\ UNCHANGED <<grid, laser_queue, sim_locals>>)
       /\ NoRefract =>
              /\ cur_new_lasers' = <<>>
              /\ \A i \in DOMAIN laser_queue' : laser_queue'[i].ref # 0
              /\ WorkLeft' < WorkLeft]_vars

\* a simulation without a refractor has returned after a laser caught between
\* reflectors made its 500 passes
C19_Witness ==
    /\ pc = "returned"
    /\ steps = MAX_STEPS
    /\ Len(current_positions) = MAX_STEPS + 1
    /\ NoRefract
    /\ \E p \in Cells(grid) : get_block(grid, p[1], p[2]).block_type = "reflect"

\* C20: on the lattice of a file, for emitters on points with exactly one odd
\* coordinate and diagonal unit directions, every point of a path and every
\* laser queued or spawned has exactly one odd coordinate; of the two
\* neighbours a laser inspects one is a block slot (both coordinates odd) and
\* the other an interstitial cell (both even) that holds a fixed NONE, so the
\* two are never both REFLECT, OPAQUE or REFRACT
C20_OneNeighbourIsABlockSlot ==
    (file_lines # <<>> /\ WellFormedEmitters) =>
        /\ \A i \in DOMAIN current_positions :
               Odd(current_positions[i][1]) # Odd(current_positions[i][2])
        /\ \A i \in DOMAIN laser_queue :
               LET l == laser_queue[i].laser
               IN  Odd(l.x) # Odd(l.y) /\ l.vx \in {-1, 1} /\ l.vy \in {-1, 1}
        /\ \A i \in DOMAIN cur_new_lasers :
               LET l == cur_new_lasers[i]
               IN  Odd(l.x) # Odd(l.y) /\ l.vx \in {-1, 1} /\ l.vy \in {-1, 1}
        /\ (pc = "path" /\ BothOnGrid) =>
               LET slot(p) == Odd(p[1]) /\ Odd(p[2])
                   interstitial(p) ==
                       /\ ~Odd(p[1]) /\ ~Odd(p[2])
                       /\ grid[p[2] + 1][p[1] + 1] = Block("none", TRUE)
               IN  /\ \/ slot(XNeighbour) /\ interstitial(YNeighbour)
                      \/ slot(YNeighbour) /\ interstitial(XNeighbour)
                   /\ ~(TypeAt(XNeighbour) \in BlockKinds /\ TypeAt(YNeighbour) \in BlockKinds)

\* a laser spawned by a refractor is on its path, a pass made, next to a block
C20_Witness ==
    /\ file_lines # <<>>
    /\ WellFormedEmitters
    /\ pc = "path"
    /\ cur_laser.ref = 0
    /\ steps >= 1
    /\ BothOnGrid
    /\ (TypeAt(XNeighbour) \in BlockKinds \/ TypeAt(YNeighbour) \in BlockKinds)

----------------------------------------------------------------------------
(* The order of the work queue *)

\* the entries of queue q are in the order in which they were enqueued: the
\* emitters first, in the order of the input list, the spawned lasers behind
\* them
EmittersFirst(q) ==
    \A i, j \in DOMAIN q :
        i < j => /\ q[i].ref = 0 => q[j].ref = 0
                 /\ (q[i].ref # 0 /\ q[j].ref # 0) => q[i].ref < q[j].ref

\* C21: the queue is first in, first out. The laser traced next is the one at
\* the head of the queue and the others keep their order; the lasers a path
\* spawned join the queue at its tail, behind every laser enqueued before, in
\* the order in which they were spawned; nothing else changes the queue. So
\* the emitters are traced in the order of the input list, each of them before
\* every spawned laser.
C21_QueueIsFifo ==
    [][/\ EmittersFirst(laser_queue)
       /\ (pc = "queue" /\ pc' = "path") =>
              /\ laser_queue # <<>>
              /\ cur_laser' = laser_queue[1]
              /\ laser_queue' = SubSeq(laser_queue, 2, Len(laser_queue))
              /\ cur_laser'.ref # 0 =>
                     /\ cur_laser'.laser = lasers[cur_laser'.ref]
                     /\ \A i \in DOMAIN laser_queue' :
                            laser_queue'[i].ref # 0 => laser_queue'[i].ref > cur_laser'.ref
              /\ cur_laser'.ref = 0 =>
                     \A i \in DOMAIN laser_queue' : laser_queue'[i].ref = 0
       /\ (pc = "trace" /\ pc' = "queue") =>
              /\ Len(laser_queue') = Len(laser_queue) + Len(cur_new_lasers)
              /\ SubSeq(laser_queue', 1, Len(laser_queue)) = laser_queue
              /\ \A i \in DOMAIN cur_new_lasers :
                     laser_queue'[Len(laser_queue) + i] =
                         [laser |-> cur_new_lasers[i], ref |-> 0]
       /\ (pc' # "path" /\ pc # "trace") => laser_queue' = laser_queue
       /\ (pc = "path") => laser_queue' = laser_queue]_vars

\* a path that passed two refractors has ended and the two lasers it spawned
\* stand at the tail of the queue, the one spawned first in front, behind a
\* laser that was enqueued before them
C21_Witness ==
    /\ pc = "queue"
    /\ Len(cur_new_lasers) = 2
    /\ cur_new_lasers[1] # cur_new_lasers[2]
    /\ Len(laser_queue) >= 3
    /\ laser_queue[Len(laser_queue) - 1] = [laser |-> cur_new_lasers[1], ref |-> 0]
    /\ laser_queue[Len(laser_queue)] = [laser |-> cur_new_lasers[2], ref |-> 0]

----------------------------------------------------------------------------
(* Paths between reflectors *)

\* the lattice the file gave holds no OPAQUE and no REFRACT block
ReflectOnly ==
    \A p \in Cells(initial_grid) :
        get_block(initial_grid, p[1], p[2]).block_type \notin {"opaque", "refract"}

\* the first j points at most of the path recorded for a laser started at the
\* j-th point of the current path with the opposite of the direction in which
\* that point was reached
ReversedFrom(j) ==
    LET pk   == current_positions[j]
        prev == current_positions[j - 1]
        back == Laser(pk[1], pk[2], prev[1] - pk[1], prev[2] - pk[2])
    IN  PathLoop(initial_grid,
                 [laser |-> back, positions |-> <<current_position(back)>>,
                  new_lasers |-> <<>>, brk |-> FALSE],
                 j - 1).positions

\* C22: on the lattice of a file whose blocks are all REFLECT, when the points
\* p0, ..., pk of a recorded path are in bounds, the laser started at pk
\* against the direction in which pk was reached records pk, ..., p1 in that
\* order. The path traced is taken when it is complete; the points p0, ..., pk
\* are its first k + 1 points.
C22_ReflectedPathsReverse ==
    (pc = "trace" /\ file_lines # <<>> /\ WellFormedEmitters /\ ReflectOnly) =>
        \A j \in 2..Len(current_positions) :
            (\A i \in 1..j : OnGrid(current_positions[i])) =>
                LET r == ReversedFrom(j)
                IN  /\ Len(r) >= j - 1
                    /\ \A i \in 1..(j - 1) : r[i] = current_positions[j + 1 - i]

----------------------------------------------------------------------------
(* The trace marks *)

RECURSIVE UnmarkedLoop(_, _, _, _, _)
\* the queue loop of process_laser_paths on a lattice that is left as it is:
\* every laser is traced on g, whatever was visited before
UnmarkedLoop(g, queue, hit, ls, fuel) ==
    IF queue = <<>> THEN [finished |-> TRUE, hit_points |-> hit]
    ELSE IF fuel = 0 THEN [finished |-> FALSE, hit_points |-> hit]
    ELSE LET s == ProcessOne(g, queue, hit, ls)
         IN  UnmarkedLoop(g, s.laser_queue, s.hit_points, s.lasers, fuel - 1)

\* the simulation of the emitters of the file on the lattice of the file,
\* without marks
Unmarked == UnmarkedLoop(initial_grid, QueueOf(initial_lasers), {}, initial_lasers, MaxLasers)

\* C23: on the lattice of a file, for emitters on points with exactly one odd
\* coordinate and diagonal unit directions, the trace marks do not change the
\* simulation. A cell differs from the lattice of the file only by being a
\* fixed LASER_TRACE block where an EMPTY or NONE cell with exactly one odd
\* coordinate was, so no REFLECT, OPAQUE or REFRACT block is replaced; the two
\* neighbours a pass inspects are never LASER_TRACE and hold what the file
\* gave, so the pass is the one made on the unmarked lattice and the laser
\* moves unless it is absorbed; the visited set and the value returned are
\* those of the simulation that leaves the lattice unmarked.
C23_TraceMarksChangeNothing ==
    [][(file_lines # <<>> /\ WellFormedEmitters) =>
          /\ \A p \in Cells(grid') :
                 LET b0 == get_block(initial_grid, p[1], p[2])
                     b  == get_block(grid', p[1], p[2])
                 IN  b # b0 => /\ b = Block("laser", TRUE)
                               /\ b0.block_type \in {"empty", "none"}
                               /\ Odd(p[1]) # Odd(p[2])
          /\ (LoopPass /\ BothOnGrid) =>
                 /\ TypeAt(XNeighbour) # "laser"
                 /\ TypeAt(YNeighbour) # "laser"
                 /\ get_block(grid, XNeighbour[1], XNeighbour[2]) =
                        get_block(initial_grid, XNeighbour[1], XNeighbour[2])
                 /\ get_block(grid, YNeighbour[1], YNeighbour[2]) =
                        get_block(initial_grid, YNeighbour[1], YNeighbour[2])
                 /\ \/ cur_laser'.laser = Laser(cur_laser.laser.x, cur_laser.laser.y, 0, 0)
                    \/ /\ Len(current_positions') = Len(current_positions) + 1
                       /\ current_position(cur_laser'.laser) # current_position(cur_laser.laser)
          /\ LoopPass =>
                 LET s == LaserStep(initial_grid, cur_laser.laser)
                 IN  /\ cur_laser'.laser = s.laser
                     /\ current_positions' = current_positions \o s.appended
                     /\ cur_new_lasers' = cur_new_lasers \o s.spawned
          /\ pc' = "returned" =>
                 /\ Unmarked.finished
                 /\ hit_points' = Unmarked.hit_points
                 /\ call'.ret = TargetsHit(points, Unmarked.hit_points)]_vars

\* a simulation has returned after tracing, last, a spawned laser that started
\* on a cell the path of its parent had marked and went on for two points
C23_Witness ==
    /\ pc = "returned"
    /\ file_lines # <<>>
    /\ WellFormedEmitters
    /\ cur_laser.ref = 0
    /\ Len(current_positions) >= 3
    /\ OnGrid(current_positions[1])
    /\ TypeAt(current_positions[1]) = "laser"
    /\ grid # initial_grid
    /\ call.ret

====
